---------------------------- MODULE Spec2Model ----------------------------
(***************************************************************************)
(* A model of the DrawControl of react-map-gl                              *)
(* (src/src/components/draw-control/draw-control.js, the variant with the  *)
(* modes READ_ONLY, SELECT_FEATURE, EDIT_VERTEX, DRAW_POINT, DRAW_PATH,    *)
(* DRAW_POLYGON, lines 487-986) and of its Feature class                   *)
(* (src/unnamed/part_000).                                                 *)
(*                                                                         *)
(* The host (the component that renders DrawControl and owns the props     *)
(* mode, features, selectedId, onUpdate, onSelect) and the event source    *)
(* (mjolnir.js) are the environment: the host may change the props at any  *)
(* time and may hand back what the callbacks gave it; the event source     *)
(* delivers pointerdown, pointermove, pointerup and click in the order a   *)
(* pointer produces them.                                                  *)
(*                                                                         *)
(* What the model leaves out.  Features and exported records are values:   *)
(* the arrays a Feature shares with the record it was made from            *)
(* (fromFeature keeps `coordinates` as `points`) and with the record it    *)
(* exports are not aliased, so the host's copies do not change when a      *)
(* handler mutates a feature in place.  The turf helpers of toFeature and  *)
(* viewport.unproject are total.  A render that throws (_renderCurrent     *)
(* with a selectedId that matches no feature) ends the run: no action is   *)
(* enabled once dom.ok is false.                                           *)
(***************************************************************************)
EXTENDS Integers, Sequences, FiniteSets, TLC

(***************************************************************************)
(* Bounds of the model.                                                    *)
(***************************************************************************)
\* The edits of one run: a click that adds a vertex counts 2, a move that
\* displaces a dragged vertex counts 1.
MaxEdits == 4

\* Where the pointer is pressed (offsetCenter of pointerdown).
PressPos == {<<0, 0>>}

\* The vertices a Feature taken by itself may grow to (addPoint and
\* insertPoint are not called beyond it).
MaxPoints == 3

\* Where the pointer moves and clicks.  _onMouseMove reads only the squared
\* displacement from the press: 5 (the threshold itself) and 8.
Pos == {<<1, 2>>, <<2, 2>>}

(***************************************************************************)
(* Program constants.                                                      *)
(***************************************************************************)
READ_ONLY      == "READ_ONLY"
SELECT_FEATURE == "SELECT_FEATURE"
EDIT_VERTEX    == "EDIT_VERTEX"
DRAW_POINT     == "DRAW_POINT"
DRAW_PATH      == "DRAW_PATH"
DRAW_POLYGON   == "DRAW_POLYGON"

MODES == {READ_ONLY, SELECT_FEATURE, EDIT_VERTEX, DRAW_POINT, DRAW_PATH, DRAW_POLYGON}

MODE_TO_TYPE(m) ==
  CASE m = DRAW_POINT   -> "Point"
    [] m = DRAW_PATH    -> "LineString"
    [] m = DRAW_POLYGON -> "Polygon"

DrawModes == {DRAW_POINT, DRAW_PATH, DRAW_POLYGON}

SET       == "SET"
INTERSECT == "INTERSECT"

\* dx * dx + dy * dy > 5 in _onMouseMove
DragThreshold == 5

\* null / undefined of a selectedId (ids of features are positive)
Null == 0

(***************************************************************************)
(* Sequence helpers (Array.prototype methods used by the code).            *)
(***************************************************************************)
\* a faulty slice: slice(0) keeps the closing position of the ring
SliceDropLast_KeepsAll(s) == s

\* points.slice(0, -1)
SliceDropLast(s) == IF Len(s) = 0 THEN <<>> ELSE SubSeq(s, 1, Len(s) - 1)

\* points.splice(index, 1), 0-based index
SpliceRemove(s, index) ==
  SubSeq(s, 1, index) \o SubSeq(s, index + 2, Len(s))

\* points.splice(index, 0, p), 0-based index
SpliceInsert(s, index, p) ==
  SubSeq(s, 1, index) \o <<p>> \o SubSeq(s, index + 1, Len(s))

\* features.find(f => f.id === id): the 1-based index of the first match, 0 if none
FindIndex(fs, id) ==
  IF \E k \in 1..Len(fs) : fs[k].id = id
  THEN CHOOSE k \in 1..Len(fs) :
         /\ fs[k].id = id
         /\ \A j \in 1..(k - 1) : fs[j].id # id
  ELSE 0

(***************************************************************************)
(* Feature (src/unnamed/part_000).  A feature is a record                  *)
(* [id, type, points, isClosed]; isClosed = FALSE stands for the falsy     *)
(* values undefined and false, which the code never tells apart.           *)
(***************************************************************************)
\* new Feature({id, type, points = [], isClosed})
NewFeature(id, type, points, isClosed) ==
  [id |-> id, type |-> type, points |-> points, isClosed |-> isClosed]

\* An external geometry record {geometry: {type, coordinates}, properties: {id}}.
\* coordinates: a position for a Point, a sequence of positions for a
\* LineString, a sequence of rings for a Polygon.
GeoRecord(type, coordinates, id) ==
  [type |-> type, coordinates |-> coordinates, id |-> id]

Supported(rec) == rec.type \in {"Point", "LineString", "Polygon"}

\* the null fromFeature returns for the other kinds; reading a field of it
\* throws (see Render)
NullFeature == [id |-> -1, type |-> "null", points |-> <<>>, isClosed |-> FALSE]

\* Feature.fromFeature
fromFeature(rec) ==
  CASE rec.type = "Point" ->
         NewFeature(rec.id, rec.type, <<rec.coordinates>>, FALSE)
    [] rec.type = "LineString" ->
         NewFeature(rec.id, rec.type, rec.coordinates, FALSE)
    [] rec.type = "Polygon" ->
         NewFeature(rec.id, rec.type, SliceDropLast(rec.coordinates[1]), TRUE)
    [] OTHER -> NullFeature

\* a faulty addPoint: unshift in place of push
addPoint_Prepend(f, pt) == [f EXCEPT !.points = <<pt>> \o @]

\* feature.addPoint(pt)
addPoint(f, pt) == [f EXCEPT !.points = Append(@, pt)]

\* feature.removePoint(index): the feature after the call
removePoint(f, index) ==
  IF index >= 0 /\ index < Len(f.points)
  THEN LET pts == SpliceRemove(f.points, index)
       IN  [f EXCEPT !.points = pts,
                     !.isClosed = IF Len(pts) < 3 THEN FALSE ELSE @]
  ELSE f

\* a faulty replacePoint: splice(index, 0, pt), which inserts
replacePoint_Inserts(f, index, pt) ==
  IF index >= 0 /\ index < Len(f.points)
  THEN [f EXCEPT !.points = SpliceInsert(@, index, pt)]
  ELSE f

\* feature.replacePoint(index, pt): the feature after the call
replacePoint(f, index, pt) ==
  IF index >= 0 /\ index < Len(f.points)
  THEN [f EXCEPT !.points[index + 1] = pt]
  ELSE f

\* the boolean replacePoint returns
replacePointOk(f, index) == index >= 0 /\ index < Len(f.points)

\* the boolean removePoint returns
removePointOk(f, index) == index >= 0 /\ index < Len(f.points)

\* undefined as a position: points[0] of an empty feature
Undefined == <<>>

\* a number that equals no coordinate: p.x and p.y of an array are
\* undefined, and (undefined + undefined) / 2 is NaN
NaN == -999

\* points[i] of a JavaScript array: undefined outside 0..length-1
At(points, i) ==
  IF i >= 0 /\ i < Len(points) THEN points[i + 1] ELSE Undefined

\* index ? index - 1 : points.length - 1
PrevIndex(f, index) == IF index # 0 THEN index - 1 ELSE Len(f.points) - 1

\* the boolean insertPoint returns: p && prevP
insertPointOk(f, index) ==
  /\ At(f.points, index) # Undefined
  /\ At(f.points, PrevIndex(f, index)) # Undefined

\* feature.insertPoint(index): the feature after the call
insertPoint(f, index) ==
  IF insertPointOk(f, index)
  THEN [f EXCEPT !.points = SpliceInsert(@, index, <<NaN, NaN>>)]
  ELSE f

\* a faulty closePath guard: two points are enough
closePathOk_TwoPoints(f) == Len(f.points) >= 2

\* the boolean closePath returns
closePathOk(f) == Len(f.points) >= 3

\* a faulty closePath: it stores the closing vertex as well
closePath_StoresRing(f) ==
  IF closePathOk(f)
  THEN [f EXCEPT !.isClosed = TRUE, !.points = Append(@, @[1])]
  ELSE f

\* feature.closePath(): the feature after the call
closePath(f) ==
  IF closePathOk(f) THEN [f EXCEPT !.isClosed = TRUE] ELSE f

\* feature.toFeature().  `points < 3` compares the array itself with 3: an
\* array of two or more positions converts to NaN, so the comparison is
\* false and the second branch is taken exactly when isClosed is falsy.
toFeature(f) ==
  IF Len(f.points) < 2
  THEN GeoRecord("Point", IF Len(f.points) = 0 THEN <<>> ELSE f.points[1], f.id)
  ELSE IF ~f.isClosed
       THEN GeoRecord("LineString", f.points, f.id)
       ELSE GeoRecord("Polygon", <<f.points \o <<f.points[1]>>>>, f.id)


\* features.map(f => f.toFeature())
ExportAll(fs) == [k \in 1..Len(fs) |-> toFeature(fs[k])]

\* features.map(f => Feature.fromFeature(f))
Hydrate(recs) == [k \in 1..Len(recs) |-> fromFeature(recs[k])]

(***************************************************************************)
(* Projection adapter.  viewport.unproject is a black box of the host; it  *)
(* is modelled by an injective map that is not the identity.               *)
(***************************************************************************)
_unproject(pt) == <<pt[1] + 10, 20 - pt[2]>>

(***************************************************************************)
(* State.                                                                  *)
(***************************************************************************)
VARIABLES
  mode,             \* this.props.mode
  propsFeatures,    \* this.props.features
  propsSelectedId,  \* this.props.selectedId
  features,         \* this.state.features, the working set
  selectedId,       \* this.state.selectedId
  draggingVertex,   \* this.state.draggingVertex
  startDragPos,     \* this.state.startDragPos
  isDragging,       \* this.state.isDragging
  didDrag,          \* this.state.didDrag
  dom,              \* the hit targets of the last render
  updates,          \* what the last handler passed to onUpdate
  selects,          \* what the last handler passed to onSelect
  edits,            \* the edits made so far (see MaxEdits)
  gesture,          \* the event source: where the pointer is between press and click
  viewport,         \* whether this._context holds a viewport
  raised,           \* whether the last handler threw
  subject,          \* a Feature taken by itself (see FeatureSpec)
  result            \* the last method called on subject and what it returned

vars == <<mode, propsFeatures, propsSelectedId, features, selectedId,
          draggingVertex, startDragPos, isDragging, didDrag, dom,
          updates, selects, edits, gesture, viewport, raised, subject, result>>

control == <<mode, propsFeatures, propsSelectedId, features, selectedId,
             draggingVertex, startDragPos, isDragging, didDrag, dom,
             updates, selects, edits, gesture, viewport, raised>>

\* what the handlers of a control with a viewport leave alone
aside == <<viewport, raised, subject, result>>

props == <<mode, propsFeatures, propsSelectedId>>
dragState == <<draggingVertex, startDragPos, isDragging, didDrag>>

\* startDragPos: {} of the constructor
NoPos == <<>>

\* dx * dx + dy * dy of _onMouseMove; with startDragPos = {} the sum is NaN,
\* which no comparison exceeds (modelled as 0)
SquaredDistance(p, q) ==
  IF q = NoPos THEN 0
  ELSE (p[1] - q[1]) * (p[1] - q[1]) + (p[2] - q[2]) * (p[2] - q[2])

\* this._getSelectedFeature(): the 1-based index in fs, 0 for undefined
_getSelectedFeature(fs, sel) == FindIndex(fs, sel)

(***************************************************************************)
(* Hit targets.  A target is what _onMouseDown and _onClick read off       *)
(* evt.target: className 'feature ...' with id = index in state.features,  *)
(* className 'vertex' with id = `${index}.${operation}`, or anything else  *)
(* (the canvas).  Indices are 0-based as in the code.                      *)
(***************************************************************************)
Background == [kind |-> "background", index |-> 0, operation |-> SET]
FeatureTarget(i) == [kind |-> "feature", index |-> i, operation |-> SET]
VertexTarget(i, op) == [kind |-> "vertex", index |-> i, operation |-> op]

\* the operation _renderCurrent gives vertex i of the selected feature f
VertexOperation(f, i, m) ==
  IF f.isClosed THEN SET
  ELSE IF m = DRAW_POLYGON /\ i = 0 /\ Len(f.points) > 2 THEN INTERSECT
  ELSE SET

\* _renderCanvas: the feature elements (_renderFeature skips the selected
\* feature) and the vertices of the selected feature (_renderCurrent, which
\* throws when selectedId is set and names no feature: ok = FALSE).
\* _renderFeature calls _getSelectedFeature and reads feature.type, both of
\* which throw on a null entry of the working set.
Render(fs, sel, m) ==
  LET s == _getSelectedFeature(fs, sel)
  IN  [ok |-> (\A k \in 1..Len(fs) : fs[k] # NullFeature)
                /\ (sel = Null \/ s # 0),
       features |-> {k - 1 : k \in {j \in 1..Len(fs) : j # s}},
       vertices |-> IF sel = Null \/ s = 0 THEN <<>>
                    ELSE [i \in 1..Len(fs[s].points) |->
                            VertexOperation(fs[s], i - 1, m)]]

Targets(d) ==
  {Background}
    \cup {FeatureTarget(i) : i \in d.features}
    \cup {VertexTarget(i - 1, d.vertices[i]) : i \in 1..Len(d.vertices)}

(***************************************************************************)
(* The collection a host mounts the control with: one path of three        *)
(* vertices.                                                               *)
(***************************************************************************)
Path ==
  GeoRecord("LineString",
            <<_unproject(<<0, 0>>), _unproject(<<1, 2>>), _unproject(<<2, 2>>)>>, 1)

InitialCollections == {<<Path>>}

\* the pointer is up and no click is due
Idle == [phase |-> "idle", pos |-> NoPos, bg |-> FALSE, moved |-> FALSE]

\* no Feature is looked at by itself
NoFeature == NullFeature
NoResult == [op |-> "none"]

\* constructor and first render, for the props and the context of a host.
\* _render reads width and height of this._context.viewport and throws
\* without a viewport.
Constructed(collection, hasViewport) ==
  /\ mode \in MODES
  /\ propsFeatures = collection
  /\ propsSelectedId = Null
  /\ features = Hydrate(propsFeatures)
  /\ selectedId = Null
  /\ draggingVertex = -1
  /\ startDragPos = NoPos
  /\ isDragging = FALSE
  /\ didDrag = FALSE
  /\ dom = [Render(features, selectedId, mode) EXCEPT
              !.ok = @ /\ hasViewport]
  /\ updates = <<>>
  /\ selects = <<>>
  /\ edits = 0
  /\ gesture = Idle
  /\ viewport = hasViewport
  /\ raised = FALSE
  /\ subject = NoFeature
  /\ result = NoResult

\* a host with a viewport and a collection of supported kinds
Init == \E c \in InitialCollections : Constructed(c, TRUE)

(***************************************************************************)
(* Handlers.                                                               *)
(***************************************************************************)
\* a faulty gate: READ_ONLY forgotten
Suppressed_NoReadOnly(m, handler) ==
  m = SELECT_FEATURE /\ handler # "_onClickFeature"

\* _onEvent: the mode gate in front of every handler of _setupEvents
Suppressed(m, handler) ==
  \/ m = READ_ONLY
  \/ (m = SELECT_FEATURE /\ handler # "_onClickFeature")

\* What a click handler does: the working set and the selection it leaves,
\* what it hands to onUpdate and onSelect, and whether it called setState
\* (which renders again).
Effect(fs, sel, upd, selArgs, setState) ==
  [features |-> fs, selectedId |-> sel, updates |-> upd, selects |-> selArgs,
   setState |-> setState]

NoEffect == Effect(features, selectedId, <<>>, <<>>, FALSE)

\* a faulty _update: the last feature is left out of the payload
_update_WithoutLast(fs) == <<ExportAll(SliceDropLast(fs))>>

\* this._update(fs)
_update(fs) == <<ExportAll(fs)>>

MaxOf(S) == IF S = {} THEN 0 ELSE CHOOSE x \in S : \A y \in S : y <= x

\* Date.now(): a time after every id in use (no two features are made
\* within the same millisecond)
DateNow ==
  1 + MaxOf({features[k].id : k \in 1..Len(features)}
              \cup {propsFeatures[k].id : k \in 1..Len(propsFeatures)}
              \cup {selectedId, propsSelectedId})

\* a faulty _addPoint: DRAW_POINT missing from the commit condition
_addPoint_PointNotCommitted(pt, feature, k) ==
  LET f == addPoint(feature, _unproject(pt))
      mutated == IF k = 0 THEN features ELSE [features EXCEPT ![k] = f]
      isNew == FindIndex(mutated, f.id) = 0
      fs == IF isNew THEN Append(mutated, f) ELSE mutated
  IN  IF mode = DRAW_PATH /\ Len(f.points) >= 2
      THEN Effect(mutated, selectedId, _update(fs), <<f.id>>, FALSE)
      ELSE Effect(fs, f.id, <<>>, <<>>, TRUE)

\* a faulty _addPoint: polygons committed like paths
_addPoint_PolygonCommitted(pt, feature, k) ==
  LET f == addPoint(feature, _unproject(pt))
      mutated == IF k = 0 THEN features ELSE [features EXCEPT ![k] = f]
      isNew == FindIndex(mutated, f.id) = 0
      fs == IF isNew THEN Append(mutated, f) ELSE mutated
  IN  IF mode = DRAW_POINT \/ Len(f.points) >= 2
      THEN Effect(mutated, selectedId, _update(fs), <<f.id>>, FALSE)
      ELSE Effect(fs, f.id, <<>>, <<>>, TRUE)

\* _addPoint(x, y, feature) for a feature of the working set (k is its
\* index, k = 0 for the feature _addFeature has just made)
_addPoint(pt, feature, k) ==
  LET f == addPoint(feature, _unproject(pt))
      mutated == IF k = 0 THEN features ELSE [features EXCEPT ![k] = f]
      isNew == FindIndex(mutated, f.id) = 0
      fs == IF isNew THEN Append(mutated, f) ELSE mutated
  IN  IF mode = DRAW_POINT \/ (mode = DRAW_PATH /\ Len(f.points) >= 2)
      THEN Effect(mutated, selectedId, _update(fs), <<f.id>>, FALSE)
      ELSE Effect(fs, f.id, <<>>, <<>>, TRUE)

\* _addFeature(type, point)
_addFeature(type, pt) ==
  _addPoint(pt, NewFeature(DateNow, type, <<>>, FALSE), 0)

\* _closePath
_closePath ==
  LET s == _getSelectedFeature(features, selectedId)
      fs == [features EXCEPT ![s] = closePath(@)]
  IN  Effect(fs, selectedId, _update(fs), <<fs[s].id>>, FALSE)

\* _onClickFeature(evt, feature)
_onClickFeature(feature) ==
  IF mode = SELECT_FEATURE \/ mode = EDIT_VERTEX \/ selectedId = Null
  THEN Effect(features, selectedId, <<>>, <<feature.id>>, FALSE)
  ELSE NoEffect

\* _onClickVertex(evt, index, operation)
_onClickVertex(index, operation) ==
  IF operation = INTERSECT THEN _closePath ELSE NoEffect

\* a faulty switch: the closed selected feature is not told apart
ClickBackground_NoClosedCheck(pt) ==
  LET s == _getSelectedFeature(features, selectedId)
  IN  CASE mode = DRAW_POINT -> _addFeature(MODE_TO_TYPE(mode), pt)
        [] mode \in {DRAW_PATH, DRAW_POLYGON} ->
             IF s # 0
             THEN _addPoint(pt, features[s], s)
             ELSE _addFeature(MODE_TO_TYPE(mode), pt)
        [] OTHER -> NoEffect

\* the switch on the mode at the end of _onClick
ClickBackground(pt) ==
  LET s == _getSelectedFeature(features, selectedId)
  IN  CASE mode = DRAW_POINT -> _addFeature(MODE_TO_TYPE(mode), pt)
        [] mode \in {DRAW_PATH, DRAW_POLYGON} ->
             IF s # 0 /\ features[s].isClosed
             THEN Effect(features, selectedId, <<>>, <<Null>>, FALSE)
             ELSE IF s # 0
                  THEN _addPoint(pt, features[s], s)
                  ELSE _addFeature(MODE_TO_TYPE(mode), pt)
        [] OTHER -> NoEffect

\* _onClick(evt)
_onClick(type, target, pt) ==
  IF type # "anyclick" THEN NoEffect
  ELSE IF target.kind = "feature"
       THEN _onClickFeature(features[target.index + 1])
  ELSE IF target.kind = "vertex"
       THEN _onClickVertex(target.index, target.operation)
  ELSE IF didDrag THEN NoEffect
  ELSE ClickBackground(pt)

\* whether _onClick(type, target, pt) reaches a call of _addPoint
CallsAddPoint(type, target) ==
  /\ type = "anyclick"
  /\ target.kind = "background"
  /\ ~didDrag
  /\ \/ mode = DRAW_POINT
     \/ /\ mode \in {DRAW_PATH, DRAW_POLYGON}
        /\ LET s == _getSelectedFeature(features, selectedId)
           IN  s = 0 \/ ~features[s].isClosed

\* _onMouseMove: the working set after the move
MoveFeatures(pt) ==
  LET s == _getSelectedFeature(features, selectedId)
  IN  IF isDragging /\ draggingVertex >= 0 /\ s # 0
      THEN [features EXCEPT ![s] = replacePoint(@, draggingVertex, _unproject(pt))]
      ELSE features

\* _onMouseMove: whether the move sets didDrag
SetsDidDrag(pt) ==
  /\ isDragging
  /\ ~didDrag
  /\ SquaredDistance(pt, startDragPos) > DragThreshold

(***************************************************************************)
(* The event source.                                                       *)
(***************************************************************************)
\* pointerdown: evt => this._onEvent(this._onMouseDown, evt).  With
\* `observed` the gesture remembers that the press was on the background,
\* and PointerMove then records whether a move went beyond the threshold;
\* the program reads neither.
Press(target, pt, observed) ==
  /\ dom.ok
  /\ gesture.phase # "down"
  /\ target \in Targets(dom)
  /\ gesture' = [phase |-> "down", pos |-> pt,
                 bg |-> (observed /\ target.kind = "background"),
                 moved |-> FALSE]
  /\ updates' = <<>>
  /\ selects' = <<>>
  /\ IF ~Suppressed(mode, "_onMouseDown") /\ target.kind = "vertex"
     THEN \* _onDragVertex
          /\ draggingVertex' = target.index
          /\ startDragPos' = pt
          /\ isDragging' = TRUE
          /\ didDrag' = FALSE
          /\ dom' = Render(features, selectedId, mode)
     ELSE UNCHANGED <<dragState, dom>>
  /\ UNCHANGED <<props, features, selectedId, edits>>

PointerDown(target, pt) == Press(target, pt, FALSE)

ObservedPointerDown(target, pt) == Press(target, pt, TRUE)

\* pointermove: evt => this._onEvent(this._onMouseMove, evt)
PointerMove(pt) ==
  /\ dom.ok
  /\ gesture' = [gesture EXCEPT !.moved =
                   @ \/ (gesture.phase = "down" /\ gesture.bg
                           /\ SquaredDistance(pt, gesture.pos) > DragThreshold)]
  /\ updates' = <<>>
  /\ selects' = <<>>
  /\ IF Suppressed(mode, "_onMouseMove")
     THEN UNCHANGED <<features, didDrag, dom, edits>>
     ELSE LET fs == MoveFeatures(pt)
          IN  /\ fs # features => edits + 1 <= MaxEdits
              /\ edits' = IF fs # features THEN edits + 1 ELSE edits
              /\ didDrag' = (didDrag \/ SetsDidDrag(pt))
              /\ features' = fs
              /\ dom' = IF SetsDidDrag(pt) THEN Render(fs, selectedId, mode) ELSE dom
  /\ UNCHANGED <<props, selectedId, draggingVertex, startDragPos, isDragging>>

\* pointerup: evt => this._onEvent(this._onMouseUp, evt)
PointerUp ==
  /\ dom.ok
  /\ gesture.phase = "down"
  /\ gesture' = [gesture EXCEPT !.phase = "released", !.pos = NoPos]
  /\ selects' = <<>>
  /\ IF Suppressed(mode, "_onMouseUp")
     THEN /\ updates' = <<>>
          /\ UNCHANGED <<dragState, dom>>
     ELSE /\ isDragging' = FALSE
          /\ didDrag' = FALSE
          /\ draggingVertex' = -1
          /\ updates' = IF draggingVertex >= 0 THEN _update(features) ELSE <<>>
          /\ dom' = Render(features, selectedId, mode)
          /\ UNCHANGED startDragPos
  /\ UNCHANGED <<props, features, selectedId, edits>>

\* click: evt => this._onEvent(this._onClick, evt)
Click(type, target, pt) ==
  /\ dom.ok
  /\ gesture.phase = "released"
  /\ target \in Targets(dom)
  /\ gesture' = Idle
  /\ IF Suppressed(mode, "_onClick")
     THEN /\ updates' = <<>>
          /\ selects' = <<>>
          /\ UNCHANGED <<features, selectedId, dom, edits>>
     ELSE /\ CallsAddPoint(type, target) => edits + 2 <= MaxEdits
          /\ LET e == _onClick(type, target, pt)
             IN  /\ features' = e.features
                 /\ selectedId' = e.selectedId
                 /\ updates' = e.updates
                 /\ selects' = e.selects
                 /\ dom' = IF e.setState
                           THEN Render(e.features, e.selectedId, mode)
                           ELSE dom
          /\ edits' = IF CallsAddPoint(type, target) THEN edits + 2 ELSE edits
  /\ UNCHANGED <<props, dragState>>

(***************************************************************************)
(* The host.  It renders the control again with other props; when a        *)
(* callback has just given it a collection or an id it may pass that back. *)
(***************************************************************************)
\* a faulty componentWillReceiveProps: a change of mode alone leaves the
\* state as it is
componentWillReceiveProps_IgnoresMode(nextMode, nextFeatures, newFeatures, nextSelectedId) ==
  LET fs == IF newFeatures THEN Hydrate(nextFeatures) ELSE features
      sel == IF propsSelectedId # nextSelectedId THEN nextSelectedId ELSE selectedId
  IN  /\ mode' = nextMode
      /\ propsFeatures' = nextFeatures
      /\ propsSelectedId' = nextSelectedId
      /\ features' = fs
      /\ selectedId' = sel
      /\ dom' = Render(fs, sel, nextMode)
      /\ UNCHANGED <<dragState, edits, gesture>>

\* componentWillReceiveProps(nextProps); newFeatures says whether
\* nextProps.features is another array than this.props.features
componentWillReceiveProps(nextMode, nextFeatures, newFeatures, nextSelectedId) ==
  LET fs == IF mode # nextMode \/ newFeatures
            THEN Hydrate(nextFeatures) ELSE features
      sel == IF mode # nextMode \/ propsSelectedId # nextSelectedId
             THEN nextSelectedId ELSE selectedId
  IN  /\ mode' = nextMode
      /\ propsFeatures' = nextFeatures
      /\ propsSelectedId' = nextSelectedId
      /\ features' = fs
      /\ selectedId' = sel
      /\ dom' = Render(fs, sel, nextMode)
      /\ UNCHANGED <<dragState, edits, gesture>>

\* the host changes the mode
HostSetMode(m) ==
  /\ dom.ok
  /\ m # mode
  /\ componentWillReceiveProps(m, propsFeatures, FALSE, propsSelectedId)
  /\ updates' = <<>>
  /\ selects' = <<>>

\* the host passes the collection onUpdate has just given it as props.features
HostTakesUpdate ==
  /\ dom.ok
  /\ updates # <<>>
  /\ componentWillReceiveProps(mode, updates[1], TRUE, propsSelectedId)
  /\ updates' = <<>>
  /\ UNCHANGED selects

\* the host passes the id onSelect has just given it as props.selectedId
HostTakesSelect ==
  /\ dom.ok
  /\ selects # <<>>
  /\ componentWillReceiveProps(mode, propsFeatures, FALSE, selects[1])
  /\ updates' = <<>>
  /\ selects' = <<>>

Next ==
  \/ \E t \in Targets(dom), pt \in PressPos :
       PointerDown(t, pt) /\ UNCHANGED aside
  \/ \E pt \in Pos : PointerMove(pt) /\ UNCHANGED aside
  \/ PointerUp /\ UNCHANGED aside
  \/ \E t \in Targets(dom), pt \in Pos :
       Click("anyclick", t, pt) /\ UNCHANGED aside
  \/ \E pt \in Pos : Click("click", Background, pt) /\ UNCHANGED aside
  \/ \E m \in MODES : HostSetMode(m) /\ UNCHANGED aside
  \/ HostTakesUpdate /\ UNCHANGED aside
  \/ HostTakesSelect /\ UNCHANGED aside

Spec == Init /\ [][Next]_vars

\* the same program, the gestures on the background observed
NextObserved ==
  \/ \E t \in Targets(dom), pt \in PressPos :
       ObservedPointerDown(t, pt) /\ UNCHANGED aside
  \/ \E pt \in Pos : PointerMove(pt) /\ UNCHANGED aside
  \/ PointerUp /\ UNCHANGED aside
  \/ \E t \in Targets(dom), pt \in Pos :
       Click("anyclick", t, pt) /\ UNCHANGED aside
  \/ \E pt \in Pos : Click("click", Background, pt) /\ UNCHANGED aside
  \/ \E m \in MODES : HostSetMode(m) /\ UNCHANGED aside
  \/ HostTakesUpdate /\ UNCHANGED aside
  \/ HostTakesSelect /\ UNCHANGED aside

SpecObserved == Init /\ [][NextObserved]_vars

(***************************************************************************)
(* The same program under any host: the context may hold no viewport, and  *)
(* props.features may hold records of kinds fromFeature does not know.     *)
(* _render, _project and _unproject read this._context.viewport and use it *)
(* without a test, so without a viewport they throw a TypeError: the       *)
(* render fails, and a handler would stop at that line, what it did before *)
(* staying done.                                                           *)
(***************************************************************************)
\* a record of a kind other than Point, LineString and Polygon
Unsupported == GeoRecord("MultiPoint", <<_unproject(<<0, 0>>)>>, 2)

\* the hosts: their context and their props.features
Hosts ==
  {[viewport |-> TRUE,  features |-> <<Path>>],
   [viewport |-> TRUE,  features |-> <<Path, Unsupported>>],
   [viewport |-> FALSE, features |-> <<Path>>]}

InitAnyHost == \E h \in Hosts : Constructed(h.features, h.viewport)

\* click; _addPoint calls _unproject before it changes anything
ClickAnyHost(type, target, pt) ==
  IF ~viewport /\ ~Suppressed(mode, "_onClick") /\ CallsAddPoint(type, target)
  THEN /\ dom.ok
       /\ gesture.phase = "released"
       /\ target \in Targets(dom)
       /\ gesture' = Idle
       /\ raised' = TRUE
       /\ updates' = <<>>
       /\ selects' = <<>>
       /\ UNCHANGED <<props, features, selectedId, dragState, dom, edits,
                      viewport, subject, result>>
  ELSE /\ Click(type, target, pt)
       /\ raised' = FALSE
       /\ UNCHANGED <<viewport, subject, result>>

\* pointermove; _onMouseMove calls _unproject after the setState of didDrag
MoveAnyHost(pt) ==
  IF ~viewport /\ ~Suppressed(mode, "_onMouseMove")
       /\ isDragging /\ draggingVertex >= 0
  THEN /\ dom.ok
       /\ gesture' = [gesture EXCEPT !.moved =
                        @ \/ (gesture.phase = "down" /\ gesture.bg
                                /\ SquaredDistance(pt, gesture.pos) > DragThreshold)]
       /\ didDrag' = (didDrag \/ SetsDidDrag(pt))
       /\ raised' = TRUE
       /\ updates' = <<>>
       /\ selects' = <<>>
       /\ UNCHANGED <<props, features, selectedId, draggingVertex, startDragPos,
                      isDragging, dom, edits, viewport, subject, result>>
  ELSE /\ PointerMove(pt)
       /\ raised' = FALSE
       /\ UNCHANGED <<viewport, subject, result>>

\* the handlers that never project
Quiet == raised' = FALSE /\ UNCHANGED <<viewport, subject, result>>

NextAnyHost ==
  \/ \E t \in Targets(dom), pt \in PressPos : PointerDown(t, pt) /\ Quiet
  \/ \E pt \in Pos : MoveAnyHost(pt)
  \/ PointerUp /\ Quiet
  \/ \E t \in Targets(dom), pt \in Pos : ClickAnyHost("anyclick", t, pt)
  \/ \E pt \in Pos : ClickAnyHost("click", Background, pt)
  \/ \E m \in MODES : HostSetMode(m) /\ Quiet
  \/ HostTakesUpdate /\ Quiet
  \/ HostTakesSelect /\ Quiet

SpecAnyHost == InitAnyHost /\ [][NextAnyHost]_vars

(***************************************************************************)
(* A Feature taken by itself: made by the constructor or by fromFeature    *)
(* from an external record, then any sequence of calls of its methods.     *)
(* The control stays as constructed from an empty collection.              *)
(***************************************************************************)
\* the positions of the external records
Vertices == << <<0, 0>>, <<2, 4>>, <<4, 0>> >>

\* the position handed to addPoint and replacePoint
NewPos == <<6, 2>>

\* External records of the three kinds.  A LineString has 0 to 3 positions;
\* the ring of a Polygon is empty or has 1 to 3 positions and the closing one.
ExternalRecords ==
  {GeoRecord("Point", Vertices[1], 1)}
    \cup {GeoRecord("LineString", SubSeq(Vertices, 1, k), 1) : k \in 0..3}
    \cup {GeoRecord("Polygon", <<SubSeq(Vertices, 1, k) \o <<Vertices[1]>>>>, 1) :
             k \in 1..3}
    \cup {GeoRecord("Polygon", <<<<>>>>, 1)}

\* the indices handed to removePoint, replacePoint and insertPoint
Indices == (-1)..MaxPoints

NoRecord == GeoRecord("none", <<>>, Null)

\* the call op(index, pt) on the feature `before`, which returned ret
Called(op, index, pt, before, ret) ==
  [op |-> op, index |-> index, pt |-> pt, before |-> before, ret |-> ret,
   exported |-> NoRecord]

InitFeature ==
  /\ mode = READ_ONLY
  /\ propsFeatures = <<>>
  /\ propsSelectedId = Null
  /\ features = Hydrate(propsFeatures)
  /\ selectedId = Null
  /\ draggingVertex = -1
  /\ startDragPos = NoPos
  /\ isDragging = FALSE
  /\ didDrag = FALSE
  /\ dom = Render(features, selectedId, mode)
  /\ updates = <<>>
  /\ selects = <<>>
  /\ edits = 0
  /\ gesture = Idle
  /\ viewport = TRUE
  /\ raised = FALSE
  /\ subject \in {fromFeature(rec) : rec \in ExternalRecords}
                 \cup {NewFeature(1, MODE_TO_TYPE(m), <<>>, FALSE) : m \in DrawModes}
  /\ result = Called("none", 0, NoPos, NoFeature, FALSE)

AddPoint(pt) ==
  /\ Len(subject.points) < MaxPoints
  /\ subject' = addPoint(subject, pt)
  /\ result' = Called("addPoint", 0, pt, subject, TRUE)
  /\ UNCHANGED control

RemovePoint(index) ==
  /\ subject' = removePoint(subject, index)
  /\ result' = Called("removePoint", index, NoPos, subject,
                      removePointOk(subject, index))
  /\ UNCHANGED control

ReplacePoint(index, pt) ==
  /\ subject' = replacePoint(subject, index, pt)
  /\ result' = Called("replacePoint", index, pt, subject,
                      replacePointOk(subject, index))
  /\ UNCHANGED control

InsertPoint(index) ==
  /\ Len(subject.points) < MaxPoints
  /\ subject' = insertPoint(subject, index)
  /\ result' = Called("insertPoint", index, NoPos, subject,
                      insertPointOk(subject, index))
  /\ UNCHANGED control

ClosePath ==
  /\ subject' = closePath(subject)
  /\ result' = Called("closePath", 0, NoPos, subject, closePathOk(subject))
  /\ UNCHANGED control

\* subject.toFeature()
ToFeature ==
  /\ result' = [Called("toFeature", 0, NoPos, subject, TRUE) EXCEPT
                  !.exported = toFeature(subject)]
  /\ UNCHANGED <<subject, control>>

\* Feature.fromFeature of the record toFeature has just returned
FromFeature ==
  /\ result.op = "toFeature"
  /\ subject' = fromFeature(result.exported)
  /\ result' = [result EXCEPT !.op = "fromFeature"]
  /\ UNCHANGED control

NextFeature ==
  \/ AddPoint(NewPos)
  \/ \E index \in Indices : RemovePoint(index)
  \/ \E index \in Indices : ReplacePoint(index, NewPos)
  \/ \E index \in Indices : InsertPoint(index)
  \/ ClosePath
  \/ ToFeature
  \/ FromFeature

FeatureSpec == InitFeature /\ [][NextFeature]_vars

(***************************************************************************)
(* Vocabulary of the properties.                                           *)
(***************************************************************************)
\* the index of the selected feature in the working set, 0 if none
Sel == _getSelectedFeature(features, selectedId)

\* _onEvent lets the handler run
Handled(handler) == ~Suppressed(mode, handler)

\* a click on the background that passes every guard of _onClick
EffectiveBackgroundClick(pt) ==
  /\ Click("anyclick", Background, pt)
  /\ Handled("_onClick")
  /\ ~didDrag

\* the ids of the working set
Ids(fs) == {fs[k].id : k \in 1..Len(fs)}

\* fs2 is fs1 but for the points of feature k
SameButPoints(fs1, fs2, k) ==
  /\ Len(fs2) = Len(fs1)
  /\ \A j \in 1..Len(fs1) :
       /\ j # k => fs2[j] = fs1[j]
       /\ fs2[j].id = fs1[j].id
       /\ fs2[j].type = fs1[j].type
       /\ fs2[j].isClosed = fs1[j].isClosed

\* payload is one exported record per feature of fs, in order
Carries(payload, fs) ==
  /\ Len(payload) = Len(fs)
  /\ \A k \in 1..Len(fs) :
       /\ payload[k].type = toFeature(fs[k]).type
       /\ payload[k] = toFeature(fs[k])

(***************************************************************************)
(* C1.  A press on the background, moves, a release and a click in a draw  *)
(* mode: the click performs its draw action if and only if no move between *)
(* the press and the release was displaced from the press by more than the *)
(* threshold; after such a move the click creates no feature, appends no   *)
(* vertex and emits neither onUpdate nor onSelect.                         *)
(***************************************************************************)
C1_DragSuppressesClick ==
  [][\A pt \in Pos :
       (/\ Click("anyclick", Background, pt)
        /\ mode \in DrawModes
        /\ gesture.bg)
       => IF gesture.moved
          THEN features' = features /\ updates' = <<>> /\ selects' = <<>>
          ELSE features' # features \/ updates' # <<>> \/ selects' # <<>>]_vars

(***************************************************************************)
(* C2.  During a vertex drag every move replaces the dragged vertex of the *)
(* selected feature by unproject(pointer position), leaves every other     *)
(* vertex and feature as it was and emits no onUpdate; the release emits   *)
(* onUpdate exactly once with the whole working set and leaves             *)
(* draggingVertex = -1 and isDragging = FALSE.                             *)
(***************************************************************************)
C2_VertexDrag ==
  [][/\ \A pt \in Pos :
          (/\ isDragging /\ draggingVertex >= 0
           /\ Handled("_onMouseMove")
           /\ Sel # 0 /\ draggingVertex < Len(features[Sel].points)
           /\ PointerMove(pt))
          => /\ SameButPoints(features, features', Sel)
             /\ Len(features'[Sel].points) = Len(features[Sel].points)
             /\ \A i \in 1..Len(features[Sel].points) :
                  features'[Sel].points[i] =
                    IF i = draggingVertex + 1 THEN _unproject(pt)
                    ELSE features[Sel].points[i]
             /\ updates' = <<>>
             /\ draggingVertex' = draggingVertex
             /\ isDragging'
     /\ (/\ draggingVertex >= 0
         /\ Handled("_onMouseUp")
         /\ PointerUp)
        => /\ Len(updates') = 1
           /\ Carries(updates'[1], features)
           /\ features' = features
           /\ draggingVertex' = -1
           /\ isDragging' = FALSE]_vars

\* a vertex has been dragged away and the release has committed it
C2_Witness ==
  /\ gesture.phase = "released"
  /\ draggingVertex = -1 /\ ~isDragging
  /\ Len(updates) = 1
  /\ Sel # 0
  /\ \E i \in 1..Len(features[Sel].points) :
       /\ features[Sel].points[i] \in {_unproject(pt) : pt \in Pos}
       /\ Len(propsFeatures) >= Sel
       /\ Hydrate(propsFeatures)[Sel].points # features[Sel].points

(***************************************************************************)
(* C3.  In DRAW_POINT mode every effective background click, whatever the  *)
(* selection, emits onUpdate exactly once, carrying the previous features  *)
(* followed by one new Point whose coordinates are unproject(click), and   *)
(* onSelect exactly once with the id of the new feature.                   *)
(*                                                                         *)
(* As claimed, the working set itself gains the feature                    *)
(* (C3_WorkingSetGainsPoint).  _addPoint hands the longer array to         *)
(* onUpdate only: this.state.features is as before until the host passes   *)
(* the collection back (C3_DrawPointCommits).                              *)
(***************************************************************************)
C3_Committed(pt) ==
  /\ Len(updates') = 1
  /\ Len(updates'[1]) = Len(features) + 1
  /\ Carries(SubSeq(updates'[1], 1, Len(features)), features)
  /\ LET new == updates'[1][Len(features) + 1]
     IN  /\ new.type = "Point"
         /\ new.coordinates = _unproject(pt)
         /\ new.id \notin Ids(features)
         /\ selects' = <<new.id>>

C3_WorkingSetGainsPoint ==
  [][\A pt \in Pos :
       (mode = DRAW_POINT /\ EffectiveBackgroundClick(pt))
       => /\ C3_Committed(pt)
          /\ Len(features') = Len(features) + 1
          /\ SubSeq(features', 1, Len(features)) = features
          /\ features'[Len(features')].type = "Point"
          /\ features'[Len(features')].points = <<_unproject(pt)>>]_vars

C3_DrawPointCommits ==
  [][\A pt \in Pos :
       (mode = DRAW_POINT /\ EffectiveBackgroundClick(pt))
       => /\ C3_Committed(pt)
          /\ features' = features
          /\ selectedId' = selectedId]_vars

\* a DRAW_POINT click has just committed a point next to a selected feature
C3_Witness ==
  /\ mode = DRAW_POINT
  /\ gesture.phase = "idle"
  /\ Sel # 0
  /\ Len(updates) = 1 /\ Len(selects) = 1
  /\ Len(updates[1]) = Len(features) + 1
  /\ updates[1][Len(updates[1])].type = "Point"
  /\ updates[1][Len(updates[1])].id = selects[1]

(***************************************************************************)
(* C4.  In DRAW_PATH mode with nothing selected, the first effective       *)
(* background click creates one feature holding the single vertex          *)
(* unproject(p1), selects it and emits no onUpdate; the second appends     *)
(* unproject(p2) to that same feature, creates no second feature and emits *)
(* onUpdate exactly once, the feature exported as a LineString with        *)
(* exactly the two vertices in click order.                                *)
(***************************************************************************)
C4_PathInTwoClicks ==
  [][\A pt \in Pos :
       (mode = DRAW_PATH /\ EffectiveBackgroundClick(pt))
       => /\ Sel = 0 =>
               /\ Len(features') = Len(features) + 1
               /\ SubSeq(features', 1, Len(features)) = features
               /\ features'[Len(features')].points = <<_unproject(pt)>>
               /\ features'[Len(features')].id \notin Ids(features)
               /\ selectedId' = features'[Len(features')].id
               /\ updates' = <<>>
          /\ (/\ Sel # 0
              /\ ~features[Sel].isClosed
              /\ Len(features[Sel].points) = 1) =>
               /\ SameButPoints(features, features', Sel)
               /\ features'[Sel].points =
                    <<features[Sel].points[1], _unproject(pt)>>
               /\ Len(updates') = 1
               /\ Carries(updates'[1], features')
               /\ updates'[1][Sel].type = "LineString"
               /\ updates'[1][Sel].coordinates =
                    <<features[Sel].points[1], _unproject(pt)>>]_vars

\* the second click has just committed a path drawn at two different places
C4_Witness ==
  /\ mode = DRAW_PATH
  /\ gesture.phase = "idle"
  /\ Sel # 0
  /\ features[Sel].id \notin {propsFeatures[k].id : k \in 1..Len(propsFeatures)}
  /\ Len(features[Sel].points) = 2
  /\ features[Sel].points[1] # features[Sel].points[2]
  /\ Len(updates) = 1
  /\ updates[1][Sel].type = "LineString"
  /\ updates[1][Sel].coordinates = features[Sel].points

(***************************************************************************)
(* C5.  In DRAW_POLYGON mode a click on vertex 0 of the selected open      *)
(* feature with n >= 3 vertices (the vertex classified INTERSECT) closes   *)
(* it: isClosed becomes TRUE, the stored points stay the same n vertices,  *)
(* onUpdate carries the feature as a Polygon whose single ring is the n    *)
(* points followed by a copy of the first, and onSelect carries its id.    *)
(***************************************************************************)
C5_ClosingClick ==
  [][\A t \in Targets(dom) : \A pt \in Pos :
       (/\ mode = DRAW_POLYGON
        /\ t.kind = "vertex" /\ t.index = 0
        /\ Sel # 0
        /\ ~features[Sel].isClosed
        /\ Len(features[Sel].points) >= 3
        /\ Click("anyclick", t, pt))
       => /\ t.operation = INTERSECT
          /\ SameButPoints(features, [features' EXCEPT ![Sel].isClosed = FALSE],
                           Sel)
          /\ features'[Sel].isClosed
          /\ features'[Sel].points = features[Sel].points
          /\ Len(updates') = 1
          /\ Carries(updates'[1], features')
          /\ updates'[1][Sel].type = "Polygon"
          /\ updates'[1][Sel].coordinates =
               <<features[Sel].points \o <<features[Sel].points[1]>> >>
          /\ selects' = <<features[Sel].id>>]_vars

\* the closing click has just happened
C5_Witness ==
  /\ mode = DRAW_POLYGON
  /\ gesture.phase = "idle"
  /\ Sel # 0
  /\ features[Sel].isClosed
  /\ Len(features[Sel].points) >= 3
  /\ Len(propsFeatures) >= Sel /\ propsFeatures[Sel].type = "LineString"
  /\ Len(updates) = 1
  /\ updates[1][Sel].type = "Polygon"
  /\ Len(updates[1][Sel].coordinates[1]) = Len(features[Sel].points) + 1
  /\ selects = <<selectedId>>

(***************************************************************************)
(* C6.  In DRAW_POLYGON mode the feature being drawn stays open and        *)
(* selected until closePath succeeds, whatever background clicks, presses  *)
(* (on its vertices too), moves and releases happen in between.            *)
(*                                                                         *)
(* As claimed, none of these events emits onUpdate (C6_NoUpdateUntilClosed)*)
(* Background clicks, presses and moves emit none; the release that ends   *)
(* a press on one of its vertices is the drag commit of _onMouseUp and     *)
(* emits onUpdate once, with the feature exported open                     *)
(* (C6_OpenUntilClosed).                                                   *)
(***************************************************************************)
C6_InProgress ==
  /\ mode = DRAW_POLYGON
  /\ Sel # 0
  /\ ~features[Sel].isClosed

C6_Event ==
  \/ \E t \in Targets(dom) : \E pt \in PressPos : PointerDown(t, pt)
  \/ \E pt \in Pos : PointerMove(pt)
  \/ PointerUp
  \/ \E pt \in Pos : Click("anyclick", Background, pt)

C6_StaysOpenAndSelected ==
  /\ selectedId' = selectedId
  /\ Len(features') >= Sel
  /\ features'[Sel].id = selectedId
  /\ ~features'[Sel].isClosed

C6_NoUpdateUntilClosed ==
  [][(C6_InProgress /\ C6_Event)
     => (C6_StaysOpenAndSelected /\ updates' = <<>>)]_vars

C6_OpenUntilClosed ==
  [][(C6_InProgress /\ C6_Event)
     => /\ C6_StaysOpenAndSelected
        /\ updates' # <<>> <=> (PointerUp /\ draggingVertex >= 0)
        /\ updates' # <<>> =>
             /\ Len(updates') = 1
             /\ Carries(updates'[1], features)
             /\ updates'[1][Sel].type \in {"Point", "LineString"}]_vars

\* a polygon drawn by two clicks, one of its vertices pressed and released
C6_Witness ==
  /\ C6_InProgress
  /\ features[Sel].type = "Polygon"
  /\ Len(features[Sel].points) = 2
  /\ gesture.phase = "released"
  /\ ~gesture.bg
  /\ Len(updates) = 1
  /\ updates[1][Sel].type = "LineString"

AnyEvent ==
  \/ \E t \in Targets(dom) : \E pt \in PressPos : PointerDown(t, pt)
  \/ \E pt \in Pos : PointerMove(pt)
  \/ PointerUp
  \/ \E t \in Targets(dom) : \E pt \in Pos :
       Click("anyclick", t, pt) \/ Click("click", t, pt)

C8_ReadOnlyInert ==
  [][(mode = READ_ONLY /\ AnyEvent)
     => /\ UNCHANGED <<features, selectedId, dragState>>
        /\ updates' = <<>>
        /\ selects' = <<>>]_vars

\* a press and a release have been delivered in READ_ONLY mode
C8_Witness ==
  /\ mode = READ_ONLY
  /\ gesture.phase = "released"
  /\ features = Hydrate(propsFeatures)
  /\ draggingVertex = -1 /\ ~isDragging /\ ~didDrag
  /\ updates = <<>> /\ selects = <<>>

(***************************************************************************)
(* C9.  In SELECT_FEATURE mode a click on a feature that is not selected   *)
(* emits onSelect with its id, while background clicks, vertex clicks,     *)
(* presses, moves and releases change no feature, start no drag and emit   *)
(* no onUpdate.                                                            *)
(***************************************************************************)
C9_SelectFeatureSelects ==
  [][/\ \A t \in Targets(dom) : \A pt \in Pos :
          (mode = SELECT_FEATURE /\ t.kind = "feature"
             /\ Click("anyclick", t, pt))
          => selects' = <<features[t.index + 1].id>>
     /\ (mode = SELECT_FEATURE /\ AnyEvent)
        => /\ UNCHANGED <<features, dragState>>
           /\ updates' = <<>>]_vars

(***************************************************************************)
(* C10.  In every mode but READ_ONLY a click on a feature that is not      *)
(* selected emits onSelect with its id if and only if the mode is          *)
(* SELECT_FEATURE or EDIT_VERTEX or nothing is selected; with a feature    *)
(* selected in a draw mode the click emits no onSelect and changes nothing.*)
(***************************************************************************)
C10_FeatureClickSelects ==
  [][\A t \in Targets(dom) : \A pt \in Pos :
       (mode # READ_ONLY /\ t.kind = "feature" /\ Click("anyclick", t, pt))
       => /\ selects' = <<features[t.index + 1].id>>
               <=> (mode \in {SELECT_FEATURE, EDIT_VERTEX} \/ Sel = 0)
          /\ (Sel # 0 /\ mode \in DrawModes) =>
               /\ selects' = <<>>
               /\ updates' = <<>>
               /\ UNCHANGED <<features, selectedId>>]_vars

(***************************************************************************)
(* C11.  In every reachable state of a feature, made by the constructor or *)
(* by fromFeature from any external record and changed by any sequence of  *)
(* addPoint, removePoint, replacePoint, insertPoint and closePath,         *)
(* isClosed implies at least 3 points; a removePoint that leaves fewer     *)
(* than 3 points clears isClosed.                                          *)
(***************************************************************************)
C11_ClosedHasThreePoints ==
  /\ subject.isClosed => Len(subject.points) >= 3
  /\ (result.op = "removePoint" /\ result.ret /\ Len(subject.points) < 3)
       => ~subject.isClosed

(***************************************************************************)
(* C12.  toFeature derives the exported kind from the number of points and *)
(* isClosed only: fewer than 2 points export a Point; otherwise fewer than *)
(* 3 points or not closed export a LineString of the points in order;      *)
(* otherwise a Polygon whose ring is the points followed by the first      *)
(* point.  A feature with exactly 2 points never exports as a Polygon.     *)
(***************************************************************************)
C12_ExportedKind ==
  result.op = "toFeature" =>
    LET points == result.before.points
        isClosed == result.before.isClosed
        exported == result.exported
    IN  /\ Len(points) < 2 => exported.type = "Point"
        /\ (Len(points) >= 2 /\ (Len(points) < 3 \/ ~isClosed)) =>
             /\ exported.type = "LineString"
             /\ exported.coordinates = points
        /\ (Len(points) >= 3 /\ isClosed) =>
             /\ exported.type = "Polygon"
             /\ exported.coordinates = <<points \o <<points[1]>>>>
        /\ Len(points) = 2 => exported.type # "Polygon"

C14_ClosePath ==
  result.op = "closePath" =>
    /\ result.ret <=> Len(result.before.points) >= 3
    /\ result.ret => subject.isClosed
    /\ ~result.ret => subject.isClosed = result.before.isClosed
    /\ subject.points = result.before.points

\* an open feature of 3 points has been closed
C14_Witness ==
  /\ result.op = "closePath"
  /\ result.ret
  /\ ~result.before.isClosed
  /\ Len(result.before.points) = 3
  /\ subject.isClosed

\* closePath has failed on an open feature of 2 points
C14_WitnessFailed ==
  /\ result.op = "closePath"
  /\ ~result.ret
  /\ Len(result.before.points) = 2
  /\ ~subject.isClosed

\* m is the coordinate-wise midpoint of the positions p and q
IsMidpoint(m, p, q) == \A k \in 1..2 : 2 * m[k] = p[k] + q[k]

(***************************************************************************)
(* C15.  insertPoint(i) on a feature of n >= 2 points with 0 <= i < n      *)
(* returns true, makes the points one longer, and puts at index i the      *)
(* coordinate-wise midpoint of the point that was at i and of the one      *)
(* before it (the last point when i = 0); the other points keep their      *)
(* order.                                                                  *)
(***************************************************************************)
C15_InsertsMidpoint ==
  LET before == result.before.points
      i == result.index
  IN  (result.op = "insertPoint" /\ Len(before) >= 2 /\ i >= 0 /\ i < Len(before))
      => /\ result.ret
         /\ Len(subject.points) = Len(before) + 1
         /\ SpliceRemove(subject.points, i) = before
         /\ IsMidpoint(subject.points[i + 1], before[i + 1],
                       At(before, PrevIndex(result.before, i)))

\* what holds of C15: the call succeeds and inserts one vertex at index i
C15_InsertsAtIndex ==
  LET before == result.before.points
      i == result.index
  IN  (result.op = "insertPoint" /\ Len(before) >= 2 /\ i >= 0 /\ i < Len(before)
         /\ \A k \in 1..Len(before) : before[k] # Undefined)
      => /\ result.ret
         /\ SpliceRemove(subject.points, i) = before

(***************************************************************************)
(* C16.  A failing mutation returns false and changes nothing:             *)
(* removePoint(i) and replacePoint(i, c) with i out of range, and          *)
(* insertPoint(i) on a feature of fewer than 2 points (for every i) or     *)
(* with i out of range, leave points and isClosed as they were.            *)
(***************************************************************************)
C16_FailingMutationNoOp ==
  LET n == Len(result.before.points)
      i == result.index
      OutOfRange == i < 0 \/ i >= n
      Fails ==
        \/ result.op \in {"removePoint", "replacePoint"} /\ OutOfRange
        \/ result.op = "insertPoint" /\ (n < 2 \/ OutOfRange)
  IN  Fails => (~result.ret /\ subject = result.before)

\* the records of a collection that fromFeature knows, in their order
SupportedOf(recs) == SelectSeq(recs, Supported)

(***************************************************************************)
(* C17.  Hydration skips the records of unsupported kinds: the working set *)
(* never holds a null, it holds the supported records in their order, and  *)
(* the selection lookup of the render does not fail on it.                 *)
(***************************************************************************)
C17_HydrationSkipsNulls ==
  /\ \A k \in 1..Len(features) : features[k] # NullFeature
  /\ edits = 0 => features = Hydrate(SupportedOf(propsFeatures))
  /\ (viewport /\ selectedId = Null) => dom.ok

(***************************************************************************)
(* C20.  Without a viewport the control stays up, no handler raises an     *)
(* error and the working set stays as hydrated: a click in a draw mode and *)
(* a move during a vertex drag do nothing.                                 *)
(***************************************************************************)
C20_NoViewportNoError ==
  ~viewport =>
    /\ dom.ok
    /\ ~raised
    /\ features = Hydrate(propsFeatures)
    /\ updates = <<>>
    /\ selects = <<>>

\* the click that creates a feature in DRAW_PATH or DRAW_POLYGON: an
\* effective background click with nothing selected
C18_CreatingClick ==
  /\ mode \in {DRAW_PATH, DRAW_POLYGON}
  /\ Sel = 0
  /\ \E pt \in Pos : EffectiveBackgroundClick(pt)

(***************************************************************************)
(* C18.  Every onUpdate an event emits carries one exported record per     *)
(* feature of the working set, in its order (that of a DRAW_POINT click    *)
(* followed by the new Point, which the working set does not hold); an     *)
(* event changes the selected feature only in the click that creates a     *)
(* feature in DRAW_PATH or DRAW_POLYGON, which selects the new feature and *)
(* emits no onSelect.                                                      *)
(***************************************************************************)
C18_NotifiedOnCommit ==
  [][/\ (updates' # <<>> /\ AnyEvent) =>
            /\ Len(updates') = 1
            /\ IF mode = DRAW_POINT /\ \E pt \in Pos : EffectiveBackgroundClick(pt)
               THEN /\ Len(updates'[1]) = Len(features') + 1
                    /\ Carries(SubSeq(updates'[1], 1, Len(features')), features')
                    /\ updates'[1][Len(features') + 1].type = "Point"
               ELSE Carries(updates'[1], features')
     /\ (selectedId' # selectedId /\ AnyEvent) =>
            /\ C18_CreatingClick
            /\ selects' = <<>>
            /\ updates' = <<>>
            /\ Len(features') = Len(features) + 1
            /\ selectedId' = features'[Len(features')].id
            /\ selectedId' \notin Ids(features)]_vars

\* the creating click of a DRAW_POLYGON gesture has selected the new
\* feature, and no onSelect was emitted
C18_Witness ==
  /\ mode = DRAW_POLYGON
  /\ gesture.phase = "idle"
  /\ Sel # 0
  /\ selectedId # propsSelectedId
  /\ Len(features[Sel].points) = 1
  /\ features[Sel].type = "Polygon"
  /\ selects = <<>>
  /\ updates = <<>>

\* C18 as stated: the payload is the working set, and every change of the
\* selected feature is told by onSelect
C18_HostNotified ==
  [][/\ (updates' # <<>> /\ AnyEvent) => Carries(updates'[1], features')
     /\ (selectedId' # selectedId /\ AnyEvent) => selects' = <<selectedId'>>]_vars

\* feature k of the working set is in progress: made by a click of a draw
\* gesture, not yet committed and not among the features of the props
C19_Uncommitted(k) ==
  /\ features[k].id \notin Ids(Hydrate(propsFeatures))
  /\ \/ features[k].type = "Polygon" /\ ~features[k].isClosed
     \/ features[k].type = "LineString" /\ Len(features[k].points) < 2

C19_WitnessInProgress ==
  /\ mode = DRAW_POLYGON
  /\ dom.ok
  /\ Sel # 0
  /\ C19_Uncommitted(Sel)
  /\ Len(features[Sel].points) = 2

C21_DanglingIsNone ==
  (selectedId # Null /\ Sel = 0) =>
    /\ dom.ok
    /\ Targets(dom) = Targets(Render(features, Null, mode))

(***************************************************************************)
(* C22.  didDrag, once set by a move, is cleared only by a press; while it *)
(* is set, a click on any target (background, feature or vertex) emits     *)
(* neither onSelect nor onUpdate and changes no feature.                   *)
(***************************************************************************)
C22_ClearedOnlyByPress ==
  [][/\ (didDrag /\ ~didDrag') =>
          \E t \in Targets(dom) : \E pt \in PressPos : PointerDown(t, pt)
     /\ \A t \in Targets(dom) : \A pt \in Pos :
          (didDrag /\ Click("anyclick", t, pt)) =>
            /\ selects' = <<>>
            /\ updates' = <<>>
            /\ features' = features]_vars

(***************************************************************************)
(* C23.  Vertex i of the selected feature is classified INTERSECT if and   *)
(* only if i = 0 and the feature is a Polygon that is not closed and has   *)
(* more than 2 points; every other vertex is classified SET, whatever the  *)
(* mode.                                                                   *)
(***************************************************************************)
C23_VertexOperation ==
  Sel # 0 =>
    \A i \in 0..(Len(features[Sel].points) - 1) :
      VertexOperation(features[Sel], i, mode) =
        IF /\ i = 0
           /\ features[Sel].type = "Polygon"
           /\ ~features[Sel].isClosed
           /\ Len(features[Sel].points) > 2
        THEN INTERSECT
        ELSE SET

(***************************************************************************)
(* C24.  A vertex drag never outlives its gesture: after a release, and    *)
(* after a change of mode by the host, draggingVertex = -1 and isDragging  *)
(* is false, whatever the mode in which the release is delivered.          *)
(***************************************************************************)
C24_DragEndsWithGesture ==
  [][(PointerUp \/ (mode' # mode /\ HostSetMode(mode'))) =>
       /\ draggingVertex' = -1
       /\ ~isDragging']_vars

(***************************************************************************)
(* C25.  Only polygons can be closed: in every reachable state of the      *)
(* control a feature of the working set with isClosed has type Polygon.    *)
(***************************************************************************)
C25_OnlyPolygonsClosed ==
  \A k \in 1..Len(features) :
    features[k].isClosed => features[k].type = "Polygon"

=============================================================================
